---- MODULE Spec2Model ----
(***************************************************************************)
(* The session multiplexer of lib/src/protocol/mux/mod.rs: one frontend    *)
(* connection (H1 or H2, server position), backend connections (H1 or H2,  *)
(* client position), the stream table with its buffer pool, and the        *)
(* readiness loop Mux::ready with Mux::update_readiness.                   *)
(*                                                                         *)
(* A panic (panic!, todo!, unreachable!, unwrap, slice index) ends the     *)
(* call it happens in and the session with it: pc = "panicked".            *)
(***************************************************************************)
EXTENDS Integers, Sequences, FiniteSets, TLC

(***************************************************************************)
(* Bounds of the model.                                                    *)
(***************************************************************************)
\* Regions the shared buffer pool can hand out in total.
PoolCapacity == 4

\* The pass cap of Mux::ready. The source sets 100000 (mod.rs:265); the loop
\* body never reads the counter, so the model runs the same loop under a
\* small cap to reach the capped exit.
max_loop_iterations == 3

\* Bytes a pool region holds (the proxy's configured buffer size); every
\* input of the model fits.
BufferSize == 64

(***************************************************************************)
(* Program constants.                                                      *)
(***************************************************************************)
DefaultHeaderTableSize == 4096

DefaultInitialWindowSize == 65535

DefaultMaxFrameSize == 16384

PrefaceLen == 24

FrameHeaderLen == 9

\* payload_len of the SETTINGS header the server queues (6 * 2)
ServerSettingsPayloadLen == 12

(***************************************************************************)
(* Ready: the readiness bits, and Readiness {interest, event}.             *)
(***************************************************************************)
READABLE == "READABLE"

WRITABLE == "WRITABLE"

HUP == "HUP"

ERROR == "ERROR"

ReadyBits == {READABLE, WRITABLE, HUP, ERROR}

\* Readiness::filter_interest: interest & event
filter_interest(readiness) == readiness.interest \cap readiness.event

is_readable(ready) == READABLE \in ready

is_writable(ready) == WRITABLE \in ready

is_hup(ready) == HUP \in ready

is_error(ready) == ERROR \in ready

(***************************************************************************)
(* Bytes and big-endian integers.                                          *)
(***************************************************************************)
Min(a, b) == IF a <= b THEN a ELSE b

BE16(b, at) == b[at] * 256 + b[at + 1]

BE24(b, at) == b[at] * 65536 + b[at + 1] * 256 + b[at + 2]

\* A u32 or an i32 is a pair << hi, lo >> of 16-bit limbs, hi * 65536 + lo:
\* lo in 0..65535, hi in 0..65535 (u32) or -32768..32767 (i32).
U32Of(n) == << n \div 65536, n % 65536 >>

\* u32::MAX
U32Max == << 65535, 65535 >>

BE32(b, at) == << BE16(b, at), BE16(b, at + 2) >>

\* a big-endian u32 without its top bit, as an integer (a stream id)
BE31(b, at) == (b[at] % 128) * 16777216 + b[at + 1] * 65536 + b[at + 2] * 256 + b[at + 3]

\* a big-endian u32 without its top bit, as a u32 (a window increment)
BE31U(b, at) == << BE16(b, at) % 32768, BE16(b, at + 2) >>

ToBE24(n) == << (n \div 65536) % 256, (n \div 256) % 256, n % 256 >>

\* the 4 big-endian bytes of n in 0 .. 2^31 - 1
ToBE32(n) == << (n \div 16777216) % 256, (n \div 65536) % 256, (n \div 256) % 256, n % 256 >>

\* a > b, for u32 a and b
U32Greater(a, b) == a[1] > b[1] \/ (a[1] = b[1] /\ a[2] > b[2])

\* `x as i32` of a u32
AsI32(x) == IF x[1] >= 32768 THEN << x[1] - 65536, x[2] >> ELSE x

\* a + b of two i32, not yet wrapped: hi may leave -32768..32767
I32Sum(a, b) == << a[1] + b[1] + ((a[2] + b[2]) \div 65536), (a[2] + b[2]) % 65536 >>

\* the i32 a sum wraps to
WrapI32(x) ==
    IF x[1] > 32767 THEN << x[1] - 65536, x[2] >>
    ELSE IF x[1] < -32768 THEN << x[1] + 65536, x[2] >>
    ELSE x

(***************************************************************************)
(* The H2 frame codec (mux/parser.rs, mux/serializer.rs), from spec.md     *)
(* section 6: the 24-byte preface, the 9-octet frame header                *)
(* {length:24, type:8, flags:8, R:1, stream_id:31}, frame types 0..9,      *)
(* SETTINGS bodies of (id:16, value:32) entries.                           *)
(***************************************************************************)
\* "PRI * HTTP/2.0\r\n\r\nSM\r\n\r\n"
PREFACE ==
    << 80, 82, 73, 32, 42, 32, 72, 84, 84, 80, 47, 50, 46, 48,
       13, 10, 13, 10, 83, 77, 13, 10, 13, 10 >>

FrameTypes ==
    << "Data", "Headers", "Priority", "RstStream", "Settings",
       "PushPromise", "Ping", "GoAway", "WindowUpdate", "Continuation" >>

FrameTypeCode(t) == (CHOOSE k \in 1..Len(FrameTypes) : FrameTypes[k] = t) - 1

\* parser::preface: Ok(rest) when the input starts with the preface
preface(i) ==
    IF Len(i) >= PrefaceLen /\ SubSeq(i, 1, PrefaceLen) = PREFACE
    THEN [ok |-> TRUE, rest |-> SubSeq(i, PrefaceLen + 1, Len(i))]
    ELSE [ok |-> FALSE, rest |-> << >>]

\* parser::frame_header: the 9-octet header
frame_header(i) ==
    IF Len(i) < FrameHeaderLen \/ i[4] >= Len(FrameTypes)
    THEN [ok |-> FALSE]
    ELSE [ok |-> TRUE,
          header |-> [payload_len |-> BE24(i, 1),
                      frame_type  |-> FrameTypes[i[4] + 1],
                      flags       |-> i[5],
                      stream_id   |-> BE31(i, 6)]]

\* parser::settings_frame: a sequence of 6-byte (identifier, value) entries
settings_frame(i, len) ==
    IF len % 6 # 0 \/ Len(i) < len
    THEN [ok |-> FALSE]
    ELSE [ok |-> TRUE,
          frame |-> [kind |-> "Settings",
                     settings |-> [k \in 1..(len \div 6) |->
                                     [identifier |-> BE16(i, 6 * (k - 1) + 1),
                                      value      |-> BE32(i, 6 * (k - 1) + 3)]]]]

\* parser::frame_body: the typed body of a frame, bounded by max_frame_size
frame_body(i, header, max_frame_size) ==
    IF U32Greater(U32Of(header.payload_len), max_frame_size)
       \/ Len(i) < header.payload_len
    THEN [ok |-> FALSE]
    ELSE CASE header.frame_type = "Settings" ->
                 settings_frame(i, header.payload_len)
           [] header.frame_type = "WindowUpdate" ->
                 IF header.payload_len # 4
                 THEN [ok |-> FALSE]
                 ELSE [ok |-> TRUE,
                       frame |-> [kind |-> "WindowUpdate",
                                  stream_id |-> header.stream_id,
                                  increment |-> BE31U(i, 1)]]
           [] OTHER ->
                 [ok |-> TRUE, frame |-> [kind |-> header.frame_type]]

\* serializer::gen_frame_header: the 9 bytes of a header
gen_frame_header(header) ==
    ToBE24(header.payload_len)
        \o << FrameTypeCode(header.frame_type), header.flags >>
        \o ToBE32(header.stream_id)

(***************************************************************************)
(* kawa::Kawa<Checkout>: the storage buffer with the H1 parser's state.    *)
(*   storage    the bytes between the buffer's start and end               *)
(*   parsed     how many of them the H1 parser has turned into blocks      *)
(*   terminated the H1 parser has seen the end of the message              *)
(***************************************************************************)
NewKawa == [storage |-> << >>, parsed |-> 0, terminated |-> FALSE]

\* kawa.storage.fill(size) after a read of `bytes` into storage.space()
storage_fill(kawa, bytes) == [kawa EXCEPT !.storage = @ \o bytes]

\* kawa.storage.space().len()
storage_space(kawa) == BufferSize - Len(kawa.storage)

\* kawa.storage.clear()
storage_clear(kawa) == [kawa EXCEPT !.storage = << >>]

\* kawa.storage.consume(size)
storage_consume(kawa, size) ==
    [kawa EXCEPT !.storage = SubSeq(@, size + 1, Len(@))]

\* kawa.storage.is_empty()
storage_is_empty(kawa) == Len(kawa.storage) = 0

\* the end of an H1 head: "\r\n\r\n"
HasBlankLine(b) ==
    \E k \in 1..(Len(b) - 3) : SubSeq(b, k, k + 3) = << 13, 10, 13, 10 >>

\* kawa::h1::parse: every stored byte becomes a block, and the message is
\* terminated once the blank line is in
h1_parse(kawa) ==
    [kawa EXCEPT !.parsed = Len(kawa.storage),
                 !.terminated = @ \/ HasBlankLine(kawa.storage)]

\* kawa.prepare(..) then kawa.as_io_slice(): the parsed bytes, in wire form
as_io_slice(kawa) == SubSeq(kawa.storage, 1, kawa.parsed)

\* kawa.consume(size)
kawa_consume(kawa, size) ==
    [kawa EXCEPT !.storage = SubSeq(@, size + 1, Len(@)),
                 !.parsed = @ - size]

(***************************************************************************)
(* Option, panics, handler outcomes.                                       *)
(***************************************************************************)
\* Option::None; Some((a, b)) is << a, b >>
None == << >>

NoPanic == ""

\* what a handler call leaves behind: the connection, the stream table, the
\* pool, and the panic message when it panicked
Outcome(c, streams, pool, panic) ==
    [c |-> c, streams |-> streams, pool |-> pool, panic |-> panic]

(***************************************************************************)
(* Stream and the stream table (Streams), over the shared pool.            *)
(***************************************************************************)
\* Stream { request_id, window, front, back }
NewStream(request_id, window) ==
    [request_id |-> request_id, window |-> window,
     front |-> NewKawa, back |-> NewKawa]

\* streams[i]: the table is indexed from 0
StreamAt(streams, i) == streams[i + 1]

\* Stream::front(position): the buffer the connection reads into
front(position) == IF position = "Client" THEN "back" ELSE "front"

\* Stream::back(position): the buffer the connection writes from
back(position) == IF position = "Client" THEN "front" ELSE "back"

\* Pool::checkout: a region when one is free
pool_checkout(pool) ==
    IF pool.used < PoolCapacity
    THEN [some |-> TRUE, pool |-> [pool EXCEPT !.used = @ + 1]]
    ELSE [some |-> FALSE, pool |-> pool]

\* drop of `n` Checkouts: the regions go back to the pool
pool_release(pool, n) == [pool EXCEPT !.used = @ - n]

\* the unmatched checkouts kept instead of dropped
create_stream_rollback_leak(pool, held) == pool

\* the tuple of checkouts that did not match (Some, Some) is dropped
create_stream_rollback(pool, held) == pool_release(pool, held)

\* the length after the push, without the - 1
new_stream_index_len(streams) == Len(streams) + 1

\* `self.streams.len() - 1` after the push, of the table before it
new_stream_index(streams) == Len(streams)

\* Streams::create_stream(request_id, window)
create_stream(streams, pool, request_id, window) ==
    IF ~pool.alive
    THEN [ok |-> FALSE, streams |-> streams, pool |-> pool, index |-> 0]
    ELSE LET first  == pool_checkout(pool)
             second == pool_checkout(first.pool)
             held   == (IF first.some THEN 1 ELSE 0) + (IF second.some THEN 1 ELSE 0)
         IN  IF first.some /\ second.some
             THEN [ok |-> TRUE,
                   streams |-> Append(streams, NewStream(request_id, AsI32(window))),
                   pool |-> second.pool,
                   index |-> new_stream_index(streams)]
             ELSE [ok |-> FALSE,
                   streams |-> streams,
                   pool |-> create_stream_rollback(second.pool, held),
                   index |-> 0]

(***************************************************************************)
(* The socket capability. rx: the segments the peer has sent and the       *)
(* socket has not yet delivered; tx: the bytes the socket accepted.        *)
(***************************************************************************)
NewSocket(rx) == [rx |-> rx, tx |-> << >>]

\* socket_read(dst) with dst of `amount` bytes: nothing (the status saying
\* why), or the head of the next segment, at most `amount` bytes of it
socket_read(socket, amount) ==
    { [size |-> 0, status |-> st, bytes |-> << >>, socket |-> socket] :
        st \in IF amount = 0 THEN {"Continue"} ELSE {"WouldBlock", "Closed", "Error"} }
    \cup
    IF amount > 0 /\ socket.rx # << >>
    THEN LET seg  == Head(socket.rx)
             k    == Min(amount, Len(seg))
             rest == IF k = Len(seg)
                     THEN Tail(socket.rx)
                     ELSE << SubSeq(seg, k + 1, Len(seg)) >> \o Tail(socket.rx)
         IN  { [size |-> k, status |-> st, bytes |-> SubSeq(seg, 1, k),
                socket |-> [socket EXCEPT !.rx = rest]] :
                 st \in {"Continue", "WouldBlock"} }
    ELSE {}

\* socket_write(src) / socket_write_vectored(slices): the socket accepts
\* nothing, one byte, or all of it
socket_write(socket, data) ==
    { [size |-> n, socket |-> [socket EXCEPT !.tx = @ \o SubSeq(data, 1, n)]] :
        n \in {0, Min(1, Len(data)), Len(data)} }

(***************************************************************************)
(* Connection: the four constructors.                                      *)
(***************************************************************************)
\* H2Settings::default()
H2SettingsDefault ==
    [settings_header_table_size      |-> U32Of(DefaultHeaderTableSize),
     settings_enable_push            |-> TRUE,
     settings_max_concurrent_streams |-> U32Max,
     settings_initial_window_size    |-> U32Of(DefaultInitialWindowSize),
     settings_max_frame_size         |-> U32Of(DefaultMaxFrameSize),
     settings_max_header_list_size   |-> U32Max]

new_h1_server(socket) ==
    [kind |-> "H1", socket |-> socket, position |-> "Server",
     readiness |-> [interest |-> {READABLE, HUP, ERROR}, event |-> {}],
     stream |-> 0]

new_h1_client(socket) ==
    [kind |-> "H1", socket |-> socket, position |-> "Client",
     readiness |-> [interest |-> {WRITABLE, HUP, ERROR}, event |-> {}],
     stream |-> 0]

new_h2_server(socket) ==
    [kind |-> "H2", socket |-> socket, position |-> "Server",
     readiness |-> [interest |-> {READABLE, HUP, ERROR}, event |-> {}],
     streams |-> [id \in {0} |-> 0],
     state |-> [name |-> "ClientPreface"],
     expect |-> << 0, PrefaceLen + FrameHeaderLen >>,
     settings |-> H2SettingsDefault]

new_h2_client(socket) ==
    [kind |-> "H2", socket |-> socket, position |-> "Client",
     readiness |-> [interest |-> {WRITABLE, HUP, ERROR}, event |-> {}],
     streams |-> [id \in {0} |-> 0],
     state |-> [name |-> "ClientPreface"],
     expect |-> None,
     settings |-> H2SettingsDefault]

\* readiness.event.remove(bit)
event_remove(c, bit) == [c EXCEPT !.readiness.event = @ \ {bit}]

\* an interest.remove that leaves the mask as it is
interest_remove_nothing(c, bit) == c

\* readiness.interest.remove(bit)
interest_remove(c, bit) == [c EXCEPT !.readiness.interest = @ \ {bit}]

\* an interest.insert that leaves the mask as it is
interest_insert_nothing(c, bit) == c

\* readiness.interest.insert(bit)
interest_insert(c, bit) == [c EXCEPT !.readiness.interest = @ \cup {bit}]

(***************************************************************************)
(* ConnectionH2.                                                           *)
(***************************************************************************)
\* HashMap::insert
map_insert(map, key, value) ==
    [k \in DOMAIN map \cup {key} |-> IF k = key THEN value ELSE map[k]]

\* Ulid::generate(): an identifier no stream of the session has yet (here
\* the number of streams made so far)
ulid_generate(streams) == Len(streams)

\* ConnectionH2::create_stream: the table's create_stream, the new index
\* entered in the wire -> global map; panic!("{e:?}") when it fails
h2_create_stream(c, stream_id, streams, pool) ==
    LET r == create_stream(streams, pool, ulid_generate(streams),
                           c.settings.settings_initial_window_size)
    IN  IF r.ok
        THEN [index |-> r.index,
              out |-> Outcome([c EXCEPT !.streams = map_insert(@, stream_id, r.index)],
                              r.streams, r.pool, NoPanic)]
        ELSE [index |-> 0,
              out |-> Outcome(c, r.streams, r.pool, "BufferCapacityReached")]

\* the match on setting.identifier with an arm for 2 that flips the field
\* instead of assigning it
apply_setting_toggle_push(settings, setting) ==
    CASE setting.identifier = 1 ->
            [settings EXCEPT !.settings_header_table_size = setting.value]
      [] setting.identifier = 2 ->
            [settings EXCEPT !.settings_enable_push = (@ # (setting.value = U32Of(1)))]
      [] setting.identifier = 3 ->
            [settings EXCEPT !.settings_max_concurrent_streams = setting.value]
      [] setting.identifier = 4 ->
            [settings EXCEPT !.settings_initial_window_size = setting.value]
      [] setting.identifier = 5 ->
            [settings EXCEPT !.settings_max_frame_size = setting.value]
      [] setting.identifier = 6 ->
            [settings EXCEPT !.settings_max_header_list_size = setting.value]

\* one arm of the match on setting.identifier
apply_setting(settings, setting) ==
    CASE setting.identifier = 1 ->
            [settings EXCEPT !.settings_header_table_size = setting.value]
      [] setting.identifier = 2 ->
            [settings EXCEPT !.settings_enable_push = (setting.value = U32Of(1))]
      [] setting.identifier = 3 ->
            [settings EXCEPT !.settings_max_concurrent_streams = setting.value]
      [] setting.identifier = 4 ->
            [settings EXCEPT !.settings_initial_window_size = setting.value]
      [] setting.identifier = 5 ->
            [settings EXCEPT !.settings_max_frame_size = setting.value]
      [] setting.identifier = 6 ->
            [settings EXCEPT !.settings_max_header_list_size = setting.value]

\* the loop `for setting in settings.settings`, from entry k on: the
\* settings after it, and the panic of the first identifier outside 1..=6
RECURSIVE apply_settings(_, _, _)
apply_settings(settings, entries, k) ==
    IF k > Len(entries)
    THEN [settings |-> settings, panic |-> NoPanic]
    ELSE IF entries[k].identifier \in 1..6
         THEN apply_settings(apply_setting(settings, entries[k]), entries, k + 1)
         ELSE [settings |-> settings, panic |-> "setting_id"]

\* streams[update.stream_id as usize].window += update.increment as i32:
\* the index is the wire stream id; an i32 overflow panics in a build with
\* overflow checks and wraps in one without
handle_window_update(c, frame, streams, pool) ==
    IF frame.stream_id >= Len(streams)
    THEN {Outcome(c, streams, pool, "index out of bounds")}
    ELSE LET sum == I32Sum(StreamAt(streams, frame.stream_id).window,
                           AsI32(frame.increment))
             wrapped == [streams EXCEPT ![frame.stream_id + 1].window = WrapI32(sum)]
         IN  IF sum = WrapI32(sum)
             THEN {Outcome(c, wrapped, pool, NoPanic)}
             ELSE {Outcome(c, wrapped, pool, NoPanic),
                   Outcome(c, streams, pool, "attempt to add with overflow")}

\* ConnectionH2::handle(frame, streams)
handle(c, frame, streams, pool) ==
    CASE frame.kind = "Headers" ->
            \* self.decoder.decode(buffer).unwrap(): the HPACK decoder
            \* accepts the fragment or not
            {Outcome(c, streams, pool, NoPanic),
             Outcome(c, streams, pool, "unwrap")}
      [] frame.kind = "Settings" ->
            LET r == apply_settings(c.settings, frame.settings, 1)
            IN  {Outcome([c EXCEPT !.settings = r.settings], streams, pool, r.panic)}
      [] frame.kind = "WindowUpdate" ->
            handle_window_update(c, frame, streams, pool)
      [] OTHER ->
            \* Data, Priority, RstStream, PushPromise, Ping, GoAway,
            \* Continuation: todo!()
            {Outcome(c, streams, pool, "not yet implemented")}

\* the two frame headers the server queues in streams[0].back after the
\* client's SETTINGS: its own SETTINGS, then the SETTINGS-ACK
ServerSettingsFrames ==
    gen_frame_header([payload_len |-> ServerSettingsPayloadLen,
                      frame_type |-> "Settings", flags |-> 0, stream_id |-> 0])
    \o gen_frame_header([payload_len |-> 0,
                         frame_type |-> "Settings", flags |-> 1, stream_id |-> 0])

\* readable, (ClientPreface, Server): the preface, then the header of the
\* client's SETTINGS
h2_readable_client_preface(c, streams, pool, stream_id) ==
    LET kawa == StreamAt(streams, stream_id)[front(c.position)]
        p    == preface(kawa.storage)
        h    == frame_header(p.rest)
    IN  IF ~p.ok
        THEN {Outcome(c, streams, pool, "preface")}
        ELSE IF h.ok /\ h.header.frame_type = "Settings"
                     /\ h.header.flags = 0 /\ h.header.stream_id = 0
             THEN {Outcome([c EXCEPT !.state = [name |-> "ClientSettings"],
                                     !.expect = << 0, h.header.payload_len >>],
                           [streams EXCEPT ![stream_id + 1][front(c.position)] =
                                               storage_clear(@)],
                           pool, NoPanic)}
             ELSE {Outcome(c, streams, pool, "not yet implemented")}

\* readable, (ClientSettings, Server): apply the client's SETTINGS, queue
\* the server's SETTINGS and the ACK, turn to writing
h2_readable_client_settings(c, streams, pool, stream_id) ==
    LET kawa == StreamAt(streams, stream_id)[front(c.position)]
        f    == settings_frame(kawa.storage, Len(kawa.storage))
    IN  IF ~f.ok
        THEN {Outcome(c, streams, pool, "settings_frame")}
        ELSE LET cleared == [streams EXCEPT ![stream_id + 1][front(c.position)] =
                                                storage_clear(@)]
             IN  { IF o.panic # NoPanic
                   THEN o
                   ELSE IF storage_space(StreamAt(o.streams, 0).back) < 2 * FrameHeaderLen
                        THEN Outcome([o.c EXCEPT !.state = [name |-> "ServerSettings"]],
                                     o.streams, o.pool,
                                     "could not serialize HeaderFrame")
                        ELSE Outcome(
                               interest_remove(
                                 interest_insert(
                                   [o.c EXCEPT !.state = [name |-> "ServerSettings"]],
                                   WRITABLE),
                                 READABLE),
                               [o.streams EXCEPT ![1].back =
                                   storage_fill(@, ServerSettingsFrames)],
                               o.pool, NoPanic)
                   : o \in handle(c, f.frame, cleared, pool) }

\* the global index a frame header is read for: the map's entry for the
\* wire id, or a new stream's
h2_resolve_stream(c, header, streams, pool) ==
    IF header.stream_id \in DOMAIN c.streams
    THEN [index |-> c.streams[header.stream_id],
          out |-> Outcome(c, streams, pool, NoPanic)]
    ELSE h2_create_stream(c, header.stream_id, streams, pool)

\* readable, (Header, Server)
h2_readable_header(c, streams, pool, stream_id) ==
    LET kawa == StreamAt(streams, stream_id)[front(c.position)]
        h    == frame_header(kawa.storage)
    IN  IF ~h.ok
        THEN {Outcome(c, streams, pool, "frame_header")}
        ELSE LET cleared == [streams EXCEPT ![stream_id + 1][front(c.position)] =
                                                storage_clear(@)]
                 r       == h2_resolve_stream(c, h.header, cleared, pool)
                 target  == IF h.header.frame_type = "Headers" THEN 0 ELSE r.index
             IN  IF r.out.panic # NoPanic
                 THEN {r.out}
                 ELSE {Outcome([r.out.c EXCEPT
                                  !.expect = << target, h.header.payload_len >>,
                                  !.state = [name |-> "Frame", header |-> h.header]],
                               r.out.streams, r.out.pool, NoPanic)}

\* readable, (Frame(header), Server)
h2_readable_frame(c, streams, pool, stream_id) ==
    LET kawa == StreamAt(streams, stream_id)[front(c.position)]
        b    == frame_body(kawa.storage, c.state.header,
                           c.settings.settings_max_frame_size)
    IN  IF ~b.ok
        THEN {Outcome(c, streams, pool, "frame_body")}
        ELSE LET cleared == [streams EXCEPT ![stream_id + 1][front(c.position)] =
                                                storage_clear(@)]
             IN  { IF o.panic # NoPanic
                   THEN o
                   ELSE Outcome([o.c EXCEPT !.state = [name |-> "Header"],
                                            !.expect = << 0, FrameHeaderLen >>],
                                o.streams, o.pool, NoPanic)
                   : o \in handle(c, b.frame, cleared, pool) }

\* readable: the match on (state, position), once the expected bytes are in
h2_readable_match(c, streams, pool, stream_id) ==
    CASE c.state.name = "ClientPreface" /\ c.position = "Client" ->
            {Outcome(c, streams, pool, NoPanic)}
      [] c.state.name = "ClientPreface" /\ c.position = "Server" ->
            h2_readable_client_preface(c, streams, pool, stream_id)
      [] c.state.name = "ClientSettings" /\ c.position = "Server" ->
            h2_readable_client_settings(c, streams, pool, stream_id)
      [] c.state.name = "ServerSettings" /\ c.position = "Client" ->
            {Outcome(c, streams, pool, "not yet implemented")}
      [] c.state.name = "ServerSettings" /\ c.position = "Server" ->
            {Outcome(c, streams, pool, NoPanic)}
      [] c.state.name = "Header" /\ c.position = "Server" ->
            h2_readable_header(c, streams, pool, stream_id)
      [] c.state.name = "Frame" /\ c.position = "Server" ->
            h2_readable_frame(c, streams, pool, stream_id)
      [] OTHER ->
            {Outcome(c, streams, pool, "unreachable")}

\* what readable does with one result of socket_read
h2_readable_read(c, streams, pool, stream_id, amount, r) ==
    IF r.size > 0
    THEN LET filled == [streams EXCEPT ![stream_id + 1][front(c.position)] =
                                           storage_fill(@, r.bytes)]
             c1     == [c EXCEPT !.socket = r.socket]
         IN  IF r.size = amount
             THEN h2_readable_match([c1 EXCEPT !.expect = None],
                                    filled, pool, stream_id)
             ELSE {Outcome([c1 EXCEPT !.expect = << stream_id, amount - r.size >>],
                           filled, pool, NoPanic)}
    ELSE {Outcome(event_remove([c EXCEPT !.socket = r.socket], READABLE),
                  streams, pool, NoPanic)}

\* ConnectionH2::readable
h2_readable(c, streams, pool) ==
    IF c.expect = None
    THEN {Outcome(event_remove(c, READABLE), streams, pool, NoPanic)}
    ELSE LET stream_id == c.expect[1]
             amount    == c.expect[2]
         IN  IF stream_id >= Len(streams)
             THEN {Outcome(c, streams, pool, "index out of bounds")}
             ELSE IF amount > storage_space(StreamAt(streams, stream_id)[front(c.position)])
                  THEN {Outcome(c, streams, pool, "range end index")}
                  ELSE UNION { h2_readable_read(c, streams, pool, stream_id, amount, r) :
                                 r \in socket_read(c.socket, amount) }

\* writable, (ServerSettings, Server): what it does with one result of
\* socket_write; `size` is rebound to available_data() before consume
h2_writable_server_settings(c, streams, pool, w) ==
    LET kawa     == StreamAt(streams, 0).back
        size     == Len(kawa.storage)
        consumed == storage_consume(kawa, size)
        c1       == [c EXCEPT !.socket = w.socket]
    IN  Outcome(IF storage_is_empty(consumed)
                THEN [interest_insert(interest_remove(c1, WRITABLE), READABLE)
                        EXCEPT !.state = [name |-> "Header"],
                               !.expect = << 0, FrameHeaderLen >>]
                ELSE c1,
                [streams EXCEPT ![1].back = consumed], pool, NoPanic)

\* ConnectionH2::writable
h2_writable(c, streams, pool) ==
    CASE c.state.name = "ClientPreface" /\ c.position = "Client" ->
            {Outcome(c, streams, pool, "not yet implemented")}
      [] c.state.name = "ServerSettings" /\ c.position = "Server" ->
            { h2_writable_server_settings(c, streams, pool, w) :
                w \in socket_write(c.socket, StreamAt(streams, 0).back.storage) }
      [] OTHER ->
            {Outcome(c, streams, pool, "unreachable")}

(***************************************************************************)
(* ConnectionH1.                                                           *)
(***************************************************************************)
\* the buffer ConnectionH1::readable picks
h1_readable_buffer(position) == IF position = "Client" THEN "front" ELSE "back"

\* the buffer ConnectionH1::writable picks
h1_writable_buffer(position) == IF position = "Client" THEN "back" ELSE "front"

\* readable: what it does with one result of socket_read
h1_readable_read(c, streams, pool, r) ==
    LET buf    == h1_readable_buffer(c.position)
        c1     == [c EXCEPT !.socket = r.socket]
        c2     == IF r.size > 0 THEN c1 ELSE event_remove(c1, READABLE)
        filled == IF r.size > 0
                  THEN [streams EXCEPT ![c.stream + 1][buf] = storage_fill(@, r.bytes)]
                  ELSE streams
        parsed == [filled EXCEPT ![c.stream + 1][buf] = h1_parse(@)]
        c3     == IF r.status = "WouldBlock" THEN event_remove(c2, READABLE) ELSE c2
    IN  IF r.status \in {"Closed", "Error"}
        THEN Outcome(c2, filled, pool, "not yet implemented")
        ELSE Outcome(IF StreamAt(parsed, c.stream)[buf].terminated
                     THEN interest_remove(c3, READABLE)
                     ELSE c3,
                     parsed, pool, NoPanic)

\* ConnectionH1::readable
h1_readable(c, streams, pool) ==
    IF c.stream >= Len(streams)
    THEN {Outcome(c, streams, pool, "index out of bounds")}
    ELSE { h1_readable_read(c, streams, pool, r) :
             r \in socket_read(c.socket,
                     storage_space(StreamAt(streams, c.stream)[h1_readable_buffer(c.position)])) }

\* writable: what it does with one result of socket_write_vectored
h1_writable_write(c, streams, pool, w) ==
    LET buf == h1_writable_buffer(c.position)
        c1  == [c EXCEPT !.socket = w.socket]
    IN  IF w.size > 0
        THEN Outcome(c1, [streams EXCEPT ![c.stream + 1][buf] = kawa_consume(@, w.size)],
                     pool, NoPanic)
        ELSE Outcome(event_remove(c1, WRITABLE), streams, pool, NoPanic)

\* ConnectionH1::writable
h1_writable(c, streams, pool) ==
    IF c.stream >= Len(streams)
    THEN {Outcome(c, streams, pool, "index out of bounds")}
    ELSE LET bufs == as_io_slice(StreamAt(streams, c.stream)[h1_writable_buffer(c.position)])
         IN  IF bufs = << >>
             THEN {Outcome(interest_remove(c, WRITABLE), streams, pool, NoPanic)}
             ELSE { h1_writable_write(c, streams, pool, w) :
                      w \in socket_write(c.socket, bufs) }

(***************************************************************************)
(* Connection: the dispatch over {H1, H2}.                                 *)
(***************************************************************************)
\* Connection::readable
readable(c, streams, pool) ==
    IF c.kind = "H1" THEN h1_readable(c, streams, pool)
    ELSE h2_readable(c, streams, pool)

\* Connection::writable
writable(c, streams, pool) ==
    IF c.kind = "H1" THEN h1_writable(c, streams, pool)
    ELSE h2_writable(c, streams, pool)

(***************************************************************************)
(* What the peers send: the inputs of the model.                           *)
(***************************************************************************)
Hdr(payload_len, frame_type, flags, stream_id) ==
    gen_frame_header([payload_len |-> payload_len, frame_type |-> frame_type,
                      flags |-> flags, stream_id |-> stream_id])

SettingsEntry(identifier, value) ==
    << identifier \div 256, identifier % 256 >> \o ToBE32(value)

\* the 24-byte preface and an empty SETTINGS frame: 00 00 00 04 00 00 00 00 00
HandshakeEmptySettings == << PREFACE \o Hdr(0, "Settings", 0, 0) >>

\* the preface alone, then a SETTINGS frame of one entry, then HEADERS on
\* the new wire stream 3 and a WINDOW_UPDATE for the connection
HandshakeThenStream3 ==
    << PREFACE,
       Hdr(6, "Settings", 0, 0),
       SettingsEntry(3, 100),
       Hdr(1, "Headers", 4, 3),
       << 130 >>,
       Hdr(4, "WindowUpdate", 0, 0),
       << 0, 0, 0, 5 >> >>

\* 33 bytes whose first differs from the preface's
BadPreface == << << 81 >> \o Tail(PREFACE) \o Hdr(0, "Settings", 0, 0) >>

H2Inputs == {HandshakeEmptySettings, HandshakeThenStream3, BadPreface}

\* "G\r\n\r\n", in three segments or in one
H1Inputs ==
    { << << 71 >>, << 13, 10 >>, << 13, 10 >> >>,
      << << 71, 13, 10, 13, 10 >> >> }

\* the event masks the poller delivers
EventInputs ==
    { {READABLE}, {WRITABLE}, {READABLE, WRITABLE}, {HUP}, {ERROR} }

\* the pool at the session's start: stream 0 holds two regions, other
\* sessions hold the rest of `used`; or the pool is gone
PoolInputs ==
    { [alive |-> TRUE, used |-> u] : u \in 2..PoolCapacity }
        \cup { [alive |-> FALSE, used |-> 2] }

(***************************************************************************)
(* Mux.                                                                    *)
(***************************************************************************)
VARIABLES
    frontend,   \* Mux::frontend
    backends,   \* Mux::backends: token -> Connection
    streams,    \* Mux::streams.streams
    pool,       \* the pool behind Mux::streams.pool: alive (the Weak
                \* upgrades), used (regions checked out, of PoolCapacity)
    pc,         \* where the session is: "idle" between calls, inside
                \* ready() "front_readable", "backends", "end_of_pass",
                \* and "closed" / "panicked" once it ended
    counter,    \* ready()'s counter
    dirty,      \* ready()'s dirty
    todo,       \* the backends the pass has still to visit
    result,     \* what the last ready() returned
    metric,     \* the http.infinite_loop.error counter
    panic,      \* the panic message, once panicked
    calls       \* the readable()/writable() calls of the current pass, each
                \* with the readiness it was made under

vars ==
    << frontend, backends, streams, pool, pc, counter, dirty, todo, result,
       metric, panic, calls >>

\* Mux::frontend_token
frontend_token == 0

\* the tokens of the backends a session of the model can own: none or one
BackendTokens == {1}

\* the tokens a poller event can carry: the session's, and one it does not own
Tokens == {frontend_token} \cup BackendTokens \cup {2}

Call(token, op, c) ==
    [conn |-> token, op |-> op,
     interest |-> c.readiness.interest, event |-> c.readiness.event]

Init ==
    /\ frontend \in { new_h1_server(NewSocket(rx)) : rx \in H1Inputs }
                      \cup { new_h2_server(NewSocket(rx)) : rx \in H2Inputs }
    /\ \E owned \in SUBSET BackendTokens :
         backends \in [owned -> { new_h1_client(NewSocket(<< >>)),
                                  new_h2_client(NewSocket(<< >>)) }]
    /\ streams = << NewStream(0, U32Of(DefaultInitialWindowSize)) >>
    /\ pool \in PoolInputs
    /\ pc = "idle"
    /\ counter = 0
    /\ dirty = FALSE
    /\ todo = {}
    /\ result = "None"
    /\ metric = 0
    /\ panic = NoPanic
    /\ calls = << >>

\* update_readiness assigning the mask instead of or-ing it in
update_readiness_assign(fe, bes, token, events) ==
    IF token = frontend_token
    THEN [frontend |-> [fe EXCEPT !.readiness.event = events],
          backends |-> bes]
    ELSE IF token \in DOMAIN bes
         THEN [frontend |-> fe,
               backends |-> [bes EXCEPT ![token].readiness.event = events]]
         ELSE [frontend |-> fe, backends |-> bes]

\* Mux::update_readiness, as the new (frontend, backends)
update_readiness(fe, bes, token, events) ==
    IF token = frontend_token
    THEN [frontend |-> [fe EXCEPT !.readiness.event = @ \cup events],
          backends |-> bes]
    ELSE IF token \in DOMAIN bes
         THEN [frontend |-> fe,
               backends |-> [bes EXCEPT ![token].readiness.event = @ \cup events]]
         ELSE [frontend |-> fe, backends |-> bes]

UpdateReadiness(token, events) ==
    /\ pc = "idle"
    /\ LET u == update_readiness(frontend, backends, token, events)
       IN  /\ frontend' = u.frontend
           /\ backends' = u.backends
    /\ UNCHANGED << streams, pool, pc, counter, dirty, todo, result, metric,
                    panic, calls >>

\* the entry test looking at the wrong bit
front_hup_at_entry_error_bit(fe) == is_error(fe.readiness.event)

\* ready(): `if self.frontend.readiness().event.is_hup()`
front_hup_at_entry(fe) == is_hup(fe.readiness.event)

\* the loop test off by one
loop_continues_inclusive(n) == n <= max_loop_iterations

\* ready(): `while counter < max_loop_iterations`
loop_continues(n) == n < max_loop_iterations

\* the readable test on the event mask alone
readable_due_unfiltered(c) == is_readable(c.readiness.event)

\* ready(): `if <conn>.readiness().filter_interest().is_readable()`
readable_due(c) == is_readable(filter_interest(c.readiness))

\* ready(): `if <conn>.readiness().filter_interest().is_writable()`
writable_due(c) == is_writable(filter_interest(c.readiness))

\* the backends' test without its second disjunct
backend_failed_hup_only(b) == is_hup(filter_interest(b.readiness))

\* ready(): the test of the second loop over the backends
backend_failed(b) ==
    is_hup(filter_interest(b.readiness)) \/ is_error(filter_interest(b.readiness))

\* the break test with its negation lost
pass_breaks_when_dirty(d) == d

\* ready(): `if !dirty { break; }`
pass_breaks(d) == ~d

\* ready(): after the loop, `if counter == max_loop_iterations`
cap_reached(n) == n = max_loop_iterations

\* ready() after the loop with counter = n: the cap's metric and Close, or
\* Continue (the locals of a call that returned Continue are gone)
AfterLoop(n) ==
    /\ dirty' = dirty
    /\ calls' = calls
    /\ IF cap_reached(n)
       THEN /\ metric' = metric + 1
            /\ result' = "Close"
            /\ pc' = "closed"
            /\ counter' = n
       ELSE /\ metric' = metric
            /\ result' = "Continue"
            /\ pc' = "idle"
            /\ counter' = 0

\* ready() at the head of the while loop with counter = n: another pass, or
\* the code after the loop
LoopHead(n) ==
    IF loop_continues(n)
    THEN /\ counter' = n
         /\ pc' = "front_readable"
         /\ dirty' = FALSE
         /\ calls' = << >>
         /\ result' = "None"
         /\ metric' = metric
    ELSE AfterLoop(n)

\* ready(): entry. Close on a frontend HUP, else the first pass
ReadyEnter ==
    /\ pc = "idle"
    /\ IF front_hup_at_entry(frontend)
       THEN /\ pc' = "closed"
            /\ result' = "Close"
            /\ counter' = 0
            /\ calls' = << >>
            /\ UNCHANGED << dirty, metric >>
       ELSE LoopHead(0)
    /\ UNCHANGED << frontend, backends, streams, pool, todo, panic >>

\* ready(): the frontend's readable of a pass
FrontReadable ==
    /\ pc = "front_readable"
    /\ LET due  == readable_due(frontend)
           outs == IF due THEN readable(frontend, streams, pool)
                   ELSE {Outcome(frontend, streams, pool, NoPanic)}
       IN  \E o \in outs :
             /\ frontend' = o.c
             /\ streams' = o.streams
             /\ pool' = o.pool
             /\ panic' = o.panic
             /\ dirty' = (dirty \/ due)
             /\ calls' = IF due
                         THEN Append(calls, Call(frontend_token, "readable", frontend))
                         ELSE calls
             /\ pc' = IF o.panic # NoPanic THEN "panicked" ELSE "backends"
    /\ todo' = DOMAIN backends
    /\ UNCHANGED << backends, counter, result, metric >>

\* ready(): one iteration of `for (_, backend) in self.backends.iter_mut()`,
\* in the map's order: writable if due, then readable if due
BackendStep(t) ==
    /\ pc = "backends"
    /\ t \in todo
    /\ LET b     == backends[t]
           wdue  == writable_due(b)
           wouts == IF wdue THEN writable(b, streams, pool)
                    ELSE {Outcome(b, streams, pool, NoPanic)}
       IN  \E w \in wouts :
             LET rdue  == w.panic = NoPanic /\ readable_due(w.c)
                 routs == IF rdue THEN readable(w.c, w.streams, w.pool) ELSE {w}
             IN  \E r \in routs :
                   /\ backends' = [backends EXCEPT ![t] = r.c]
                   /\ streams' = r.streams
                   /\ pool' = r.pool
                   /\ panic' = r.panic
                   /\ dirty' = (dirty \/ wdue \/ rdue)
                   /\ calls' = calls
                                 \o (IF wdue THEN << Call(t, "writable", b) >> ELSE << >>)
                                 \o (IF rdue THEN << Call(t, "readable", w.c) >> ELSE << >>)
                   /\ pc' = IF r.panic # NoPanic THEN "panicked" ELSE "backends"
    /\ todo' = todo \ {t}
    /\ UNCHANGED << frontend, counter, result, metric >>

\* ready(): the frontend's writable of a pass, after the backends
FrontWritable ==
    /\ pc = "backends"
    /\ todo = {}
    /\ LET due  == writable_due(frontend)
           outs == IF due THEN writable(frontend, streams, pool)
                   ELSE {Outcome(frontend, streams, pool, NoPanic)}
       IN  \E o \in outs :
             /\ frontend' = o.c
             /\ streams' = o.streams
             /\ pool' = o.pool
             /\ panic' = o.panic
             /\ dirty' = (dirty \/ due)
             /\ calls' = IF due
                         THEN Append(calls, Call(frontend_token, "writable", frontend))
                         ELSE calls
             /\ pc' = IF o.panic # NoPanic THEN "panicked" ELSE "end_of_pass"
    /\ UNCHANGED << backends, todo, counter, result, metric >>

\* ready(): the end of a pass. Close on a failed backend; break when the
\* pass was not dirty; else count the pass and go to the loop's head
EndOfPass ==
    /\ pc = "end_of_pass"
    /\ IF \E t \in DOMAIN backends : backend_failed(backends[t])
       THEN /\ pc' = "closed"
            /\ result' = "Close"
            /\ UNCHANGED << counter, dirty, calls, metric >>
       ELSE IF pass_breaks(dirty)
            THEN AfterLoop(counter)
            ELSE LoopHead(counter + 1)
    /\ UNCHANGED << frontend, backends, streams, pool, todo, panic >>

Next ==
    \/ \E token \in Tokens, events \in EventInputs :
         UpdateReadiness(token, events)
    \/ ReadyEnter
    \/ FrontReadable
    \/ \E t \in BackendTokens : BackendStep(t)
    \/ FrontWritable
    \/ EndOfPass

Spec == Init /\ [][Next]_vars

(***************************************************************************)
(* Properties.                                                             *)
(***************************************************************************)
\* a step of ready() (any step but update_readiness)
InReady == pc \in {"front_readable", "backends", "end_of_pass"}

\* the backend reports HUP or ERROR in its interest-masked readiness
ReportsFailure(b) ==
    \/ HUP \in b.readiness.interest /\ HUP \in b.readiness.event
    \/ ERROR \in b.readiness.interest /\ ERROR \in b.readiness.event

SomeBackendReportsFailure == \E t \in DOMAIN backends : ReportsFailure(backends[t])

\* C1: when the frontend's event mask holds HUP at the entry of ready(),
\* ready() returns Close in that step, with no readable() or writable()
\* call, and every connection (readiness, H2 state, expectation, stream
\* map), the stream table, the pool and the metric are as before.
C1_FrontendHupCloses ==
    [][ (pc = "idle" /\ pc' # "idle" /\ HUP \in frontend.readiness.event)
          => /\ pc' = "closed"
             /\ result' = "Close"
             /\ calls' = << >>
             /\ frontend' = frontend
             /\ backends' = backends
             /\ streams' = streams
             /\ pool' = pool
             /\ metric' = metric ]_vars

\* ready() returned Close on the frontend's HUP although the frontend and
\* a backend both had work due
C1_Witness ==
    /\ pc = "closed"
    /\ result = "Close"
    /\ HUP \in frontend.readiness.event
    /\ READABLE \in frontend.readiness.event \cap frontend.readiness.interest
    /\ \E t \in DOMAIN backends :
         WRITABLE \in backends[t].readiness.event \cap backends[t].readiness.interest

\* C2: ready() never runs more passes than the cap: a pass in progress is
\* pass number counter + 1 <= cap. A pass that did work, with no backend
\* reporting HUP or ERROR, is followed by another pass unless it was pass
\* number cap; after pass number cap ready() adds one to the metric and
\* returns Close. The metric is only ever incremented there.
C2_LoopCap ==
    [][ /\ counter' <= max_loop_iterations
        /\ (pc' \in {"front_readable", "backends", "end_of_pass"}
              => counter' < max_loop_iterations)
        /\ (pc = "end_of_pass" /\ calls # << >> /\ ~SomeBackendReportsFailure)
              => IF counter + 1 = max_loop_iterations
                 THEN /\ pc' = "closed"
                      /\ result' = "Close"
                      /\ counter' = max_loop_iterations
                      /\ metric' = metric + 1
                 ELSE /\ pc' = "front_readable"
                      /\ counter' = counter + 1
                      /\ metric' = metric
        /\ (metric' # metric)
              => /\ metric' = metric + 1
                 /\ pc = "end_of_pass"
                 /\ counter' = max_loop_iterations
                 /\ result' = "Close" ]_vars

\* ready() ran into the cap: every pass did work and no backend failed
C2_Witness ==
    /\ pc = "closed"
    /\ result = "Close"
    /\ counter = max_loop_iterations
    /\ metric = 1
    /\ calls # << >>
    /\ ~SomeBackendReportsFailure

\* C3: a pass without a readable() or writable() call is the last pass of
\* its ready(); ready() returns Continue exactly at the end of such a pass
\* with no backend reporting HUP or ERROR; every other return is Close;
\* and a Continue return leaves the metric alone.
C3_ContinueOnlyAfterIdlePass ==
    [][ /\ (pc = "end_of_pass" /\ calls = << >>) => pc' \in {"idle", "closed"}
        /\ (pc # "idle")
              => ((pc' = "idle" /\ result' = "Continue")
                    <=> (pc = "end_of_pass" /\ calls = << >>
                           /\ ~SomeBackendReportsFailure))
        /\ (pc = "idle" /\ pc' # "idle") => result' # "Continue"
        /\ (pc # "idle" /\ pc' = "idle") => (result' = "Continue" /\ metric' = metric)
        /\ (pc' = "closed") => result' = "Close" ]_vars

\* ready() returned Continue after a pass that worked (an H2 frontend read
\* its preface) and a pass that did not
C3_Witness ==
    /\ pc = "idle"
    /\ result = "Continue"
    /\ frontend.kind = "H2"
    /\ frontend.state.name = "ClientSettings"

\* C4: every readable() call of the pass was made with READABLE in both the
\* interest and the event mask of its connection, every writable() call
\* with WRITABLE in both; and a Close that is not the cap's has a HUP or
\* ERROR bit behind it that is in the interest mask too.
C4_CallsOnlyOnFilteredReadiness ==
    /\ \A k \in 1..Len(calls) :
         LET bit == IF calls[k].op = "readable" THEN READABLE ELSE WRITABLE
         IN  bit \in calls[k].interest /\ bit \in calls[k].event
    /\ (pc = "closed" /\ metric = 0)
          => \/ HUP \in frontend.readiness.event \cap frontend.readiness.interest
             \/ SomeBackendReportsFailure

\* a pass made a call while a backend had READABLE set, and the frontend
\* WRITABLE set, outside their interest
C4_Witness ==
    /\ pc = "end_of_pass"
    /\ calls # << >>
    /\ WRITABLE \in frontend.readiness.event \ frontend.readiness.interest
    /\ \E t \in DOMAIN backends :
         READABLE \in backends[t].readiness.event \ backends[t].readiness.interest

\* C5: at the end of a pass (after the backends' calls and the frontend's
\* writable), a backend with HUP or ERROR in its interest-masked readiness
\* makes ready() return Close there, whether or not the pass did work, and
\* the metric is not incremented.
C5_BackendFailureCloses ==
    [][ (pc = "end_of_pass" /\ SomeBackendReportsFailure)
          => /\ pc' = "closed"
             /\ result' = "Close"
             /\ metric' = metric
             /\ counter' = counter ]_vars

\* ready() returned Close on a backend's ERROR (no HUP anywhere) at the end
\* of a pass that did work
C5_Witness ==
    /\ pc = "closed"
    /\ result = "Close"
    /\ metric = 0
    /\ calls # << >>
    /\ HUP \notin frontend.readiness.event
    /\ \E t \in DOMAIN backends :
         /\ ERROR \in backends[t].readiness.event
         /\ HUP \notin backends[t].readiness.event

\* C6: update_readiness(token, events) makes the event mask of the
\* connection the token names the union of its old mask and events, and
\* changes nothing else; a token naming no connection changes nothing.
C6_UpdateReadinessFrame ==
    [][ \A token \in Tokens, events \in EventInputs :
          UpdateReadiness(token, events)
            => /\ streams' = streams /\ pool' = pool /\ metric' = metric
               /\ IF token = frontend_token
                  THEN /\ frontend'.readiness.event =
                            frontend.readiness.event \cup events
                       /\ frontend' = [frontend EXCEPT !.readiness.event =
                                                         frontend'.readiness.event]
                       /\ backends' = backends
                  ELSE IF token \in DOMAIN backends
                       THEN /\ backends'[token].readiness.event =
                                 backends[token].readiness.event \cup events
                            /\ backends' = [backends EXCEPT ![token].readiness.event =
                                                              backends'[token].readiness.event]
                            /\ frontend' = frontend
                       ELSE /\ frontend' = frontend
                            /\ backends' = backends ]_vars

\* two deliveries to a backend have added up, the frontend's mask still
\* being what one delivery made it
C6_Witness ==
    /\ pc = "idle"
    /\ result = "None"
    /\ frontend.readiness.event = {READABLE}
    /\ \E t \in DOMAIN backends :
         backends[t].readiness.event = {WRITABLE, ERROR}

\* C7: a create_stream that fails (the H2 engine then panics with
\* BufferCapacityReached) leaves the table with the streams it had and the
\* pool with the regions it had; one that succeeds appends one Stream at
\* index = the former length, takes exactly two regions, and leaves every
\* former stream at its index.
C7_CreateStreamAllOrNothing ==
    [][ /\ (panic' = "BufferCapacityReached")
          => /\ Len(streams') = Len(streams)
             /\ \A i \in 1..Len(streams) :
                  streams'[i].request_id = streams[i].request_id
             /\ pool' = pool
        /\ (Len(streams') # Len(streams))
          => /\ Len(streams') = Len(streams) + 1
             /\ \A i \in 1..Len(streams) :
                  streams'[i].request_id = streams[i].request_id
             /\ streams'[Len(streams')].request_id
                  \notin { streams[i].request_id : i \in 1..Len(streams) }
             /\ pool'.used = pool.used + 2
             /\ \E id \in DOMAIN frontend'.streams \ DOMAIN frontend.streams :
                  frontend'.streams[id] = Len(streams) ]_vars

\* create_stream failed with exactly one region free: the one it had
\* checked out is back in the pool
C7_Witness ==
    /\ pc = "panicked"
    /\ panic = "BufferCapacityReached"
    /\ pool.alive
    /\ pool.used = PoolCapacity - 1
    /\ Len(streams) = 1

(***************************************************************************)
(* The H2 handshake of a server-position frontend, as a session that is    *)
(* kept running: the client sends the preface and an empty SETTINGS frame, *)
(* every ready() that was entered runs to its end, ready() is called again *)
(* whenever the session is idle, and the poller delivers READABLE |        *)
(* WRITABLE to the frontend again and again.                               *)
(***************************************************************************)
InitHandshake ==
    /\ Init
    /\ frontend = new_h2_server(NewSocket(HandshakeEmptySettings))
    /\ pool = [alive |-> TRUE, used |-> 2]

HandshakeSpec ==
    /\ InitHandshake
    /\ [][Next]_vars
    /\ WF_vars(ReadyEnter)
    /\ WF_vars(FrontReadable)
    /\ WF_vars(\E t \in BackendTokens : BackendStep(t))
    /\ WF_vars(FrontWritable)
    /\ WF_vars(EndOfPass)
    /\ SF_vars(UpdateReadiness(frontend_token, {READABLE, WRITABLE}))

\* the socket has delivered the preface and the SETTINGS header
HandshakeDelivered ==
    /\ frontend.kind = "H2"
    /\ frontend.state.name = "ClientSettings"
    /\ frontend.socket.rx = << >>

\* the server's SETTINGS and its SETTINGS-ACK are written, and the
\* connection waits for a frame header
HandshakeDone ==
    /\ frontend.kind = "H2"
    /\ frontend.state.name = "Header"
    /\ frontend.expect = << 0, FrameHeaderLen >>
    /\ frontend.socket.tx = ServerSettingsFrames

\* C8: once the socket has delivered the preface and the header of an empty
\* SETTINGS frame, a session that stays open and is driven on eventually has
\* written its SETTINGS and the SETTINGS-ACK and is in Header with
\* expectation (0, 9).
C8_HandshakeCompletes ==
    HandshakeDelivered ~> (HandshakeDone \/ pc \in {"closed", "panicked"})

\* RST_STREAM for a wire stream id with error code 7 (REFUSED_STREAM)
RefusedStreamFrame(id) == Hdr(4, "RstStream", 0, id) \o << 0, 0, 0, 7 >>

IsSuffix(s, t) ==
    /\ Len(s) <= Len(t)
    /\ SubSeq(t, Len(t) - Len(s) + 1, Len(t)) = s

\* this step is the frontend's readable, in state Header, reading the rest
\* of a frame header for the new wire stream id, while the pool cannot
\* supply two regions
NewStreamHeaderArrives(id) ==
    /\ pc = "front_readable"
    /\ readable_due(frontend)
    /\ frontend.kind = "H2"
    /\ frontend.position = "Server"
    /\ frontend.state.name = "Header"
    /\ frontend.expect # None
    /\ frontend.expect[1] = 0
    /\ frontend.socket.rx # << >>
    /\ LET amount == frontend.expect[2]
           seg    == Head(frontend.socket.rx)
           bytes  == StreamAt(streams, 0)[front(frontend.position)].storage
                       \o SubSeq(seg, 1, Min(amount, Len(seg)))
       IN  /\ Len(seg) >= amount
           /\ frame_header(bytes).ok
           /\ frame_header(bytes).header.stream_id = id
    /\ id # 0
    /\ id \notin DOMAIN frontend.streams
    /\ ~create_stream(streams, pool, 0, U32Of(0)).ok
    /\ frontend'.socket.rx # frontend.socket.rx

\* C9: when the pool cannot supply two regions and the frontend in state
\* Header receives a frame header for a non-zero wire stream id not in its
\* map, no stream is created, no map entry is added, an RST_STREAM with error
\* code 7 for that id is emitted, and the session goes on (no panic, no
\* Close).
C9_PoolExhaustionRefusesStream ==
    [][ \A id \in 1..8 :
          NewStreamHeaderArrives(id)
            => /\ panic' = NoPanic
               /\ pc' \notin {"panicked", "closed"}
               /\ Len(streams') = Len(streams)
               /\ DOMAIN frontend'.streams = DOMAIN frontend.streams
               /\ \/ IsSuffix(RefusedStreamFrame(id), frontend'.socket.tx)
                  \/ \E i \in 1..Len(streams') :
                       \/ IsSuffix(RefusedStreamFrame(id), streams'[i].front.storage)
                       \/ IsSuffix(RefusedStreamFrame(id), streams'[i].back.storage) ]_vars

H2Connections ==
    { c \in {frontend} \cup { backends[t] : t \in DOMAIN backends } : c.kind = "H2" }

\* every value of every wire-to-global map is an index of the table, and
\* 0 -> 0 is there
StreamMapValid ==
    \A c \in H2Connections :
      /\ 0 \in DOMAIN c.streams
      /\ c.streams[0] = 0
      /\ \A id \in DOMAIN c.streams : c.streams[id] < Len(streams)

\* a map gains an entry only in a step that appends a Stream, and the entry
\* is that Stream's index; no entry is changed or lost
StreamMapGrowth(c, d) ==
    /\ \A id \in DOMAIN c.streams :
         id \in DOMAIN d.streams /\ d.streams[id] = c.streams[id]
    /\ \A id \in DOMAIN d.streams \ DOMAIN c.streams :
         /\ Len(streams') = Len(streams) + 1
         /\ d.streams[id] = Len(streams)

\* C10: stream 0 exists from the start; in every reachable state every value
\* of an H2 connection's stream map is below the table's length and 0 -> 0 is
\* present; an entry is added only by a step that created the Stream it
\* points to.
C10_StreamMapPointsToStreams ==
    /\ []StreamMapValid
    /\ [][ /\ (frontend.kind = "H2") => StreamMapGrowth(frontend, frontend')
           /\ \A t \in DOMAIN backends :
                (backends[t].kind = "H2" /\ t \in DOMAIN backends')
                  => StreamMapGrowth(backends[t], backends'[t]) ]_vars

\* the frontend created the Stream for wire stream 3 at index 1
C10_Witness ==
    /\ frontend.kind = "H2"
    /\ 3 \in DOMAIN frontend.streams
    /\ frontend.streams[3] = 1
    /\ Len(streams) = 2
    /\ \E t \in DOMAIN backends : backends[t].kind = "H2"

(***************************************************************************)
(* Frames after the handshake: sessions whose client sends the preface, a  *)
(* SETTINGS frame of one entry, and then one of the frame sequences below. *)
(***************************************************************************)
\* the preface with the header of a 6-byte SETTINGS frame, then its entry
\* (SETTINGS_MAX_CONCURRENT_STREAMS = 100)
HandshakeOneEntry ==
    << PREFACE \o Hdr(6, "Settings", 0, 0), SettingsEntry(3, 100) >>

\* WINDOW_UPDATE(stream 0, increment 2 147 418 113 = 0x7FFF0001): with the
\* window at 65535 the sum is 2^31
WindowOverflowInput ==
    HandshakeOneEntry \o << Hdr(4, "WindowUpdate", 0, 0), << 127, 255, 0, 1 >> >>

\* a SETTINGS frame of two entries, the first with the identifier 7
UnknownSettingInput ==
    HandshakeOneEntry
        \o << Hdr(12, "Settings", 0, 0), SettingsEntry(7, 1) \o SettingsEntry(4, 100) >>

\* the same SETTINGS frame, twice
SettingsTwiceInputs ==
    { HandshakeOneEntry \o << Hdr(Len(e), "Settings", 0, 0), e,
                              Hdr(Len(e), "Settings", 0, 0), e >> :
        e \in { SettingsEntry(2, 0) \o SettingsEntry(4, 100),
                SettingsEntry(5, 20000) \o SettingsEntry(5, 16384),
                SettingsEntry(1, 0) \o SettingsEntry(6, 8) \o SettingsEntry(2, 1) } }

\* the client's SETTINGS-ACK (a frame with no payload), then a WINDOW_UPDATE
EmptyFrameInput ==
    HandshakeOneEntry
        \o << Hdr(0, "Settings", 1, 0),
              Hdr(4, "WindowUpdate", 0, 0), << 0, 0, 0, 5 >> >>

\* WINDOW_UPDATE(stream 3, increment 5) on a wire stream the session has
\* not seen: the stream is created at the global index 1
WindowUpdateStream3Input ==
    HandshakeOneEntry \o << Hdr(4, "WindowUpdate", 0, 3), << 0, 0, 0, 5 >> >>

H2FrameInputs ==
    { WindowOverflowInput, UnknownSettingInput, EmptyFrameInput,
      WindowUpdateStream3Input } \cup SettingsTwiceInputs

InitFrames ==
    /\ frontend \in { new_h2_server(NewSocket(rx)) : rx \in H2FrameInputs }
    /\ \E owned \in SUBSET BackendTokens :
         backends \in [owned -> { new_h1_client(NewSocket(<< >>)) }]
    /\ streams = << NewStream(0, U32Of(DefaultInitialWindowSize)) >>
    /\ pool = [alive |-> TRUE, used |-> 2]
    /\ pc = "idle"
    /\ counter = 0
    /\ dirty = FALSE
    /\ todo = {}
    /\ result = "None"
    /\ metric = 0
    /\ panic = NoPanic
    /\ calls = << >>

FramesSpec == InitFrames /\ [][Next]_vars

\* this step is the frontend's readable() reading the last bytes it
\* expects in the state `name`
FrontendCompletes(name) ==
    /\ pc = "front_readable"
    /\ readable_due(frontend)
    /\ frontend.kind = "H2"
    /\ frontend.position = "Server"
    /\ frontend.state.name = name
    /\ frontend.expect # None
    /\ frontend.expect[1] < Len(streams)
    /\ frontend.expect[2] > 0
    /\ frontend.socket.rx # << >>
    /\ Len(Head(frontend.socket.rx)) >= frontend.expect[2]
    /\ frontend'.socket.rx # frontend.socket.rx

\* the bytes the parser is given in such a step
ArrivedBytes ==
    StreamAt(streams, frontend.expect[1])[front(frontend.position)].storage
        \o SubSeq(Head(frontend.socket.rx), 1, frontend.expect[2])

\* the bytes this step added to a byte sequence
NewBytes(before, after) ==
    IF Len(after) >= Len(before) /\ SubSeq(after, 1, Len(before)) = before
    THEN SubSeq(after, Len(before) + 1, Len(after))
    ELSE << >>

\* this step wrote, or queued in stream 0's response buffer, a frame header
\* of the type and flags
FrameEmitted(frame_type, flags) ==
    \E new \in { NewBytes(frontend.socket.tx, frontend'.socket.tx),
                 NewBytes(streams[1].back.storage, streams'[1].back.storage) } :
      /\ frame_header(new).ok
      /\ frame_header(new).header.frame_type = frame_type
      /\ frame_header(new).header.flags = flags

\* this step handles a WINDOW_UPDATE whose increment brings the window of
\* the stream the map gives for its wire id above 2^31 - 1
WindowUpdateOverflows ==
    /\ FrontendCompletes("Frame")
    /\ frontend.state.header.frame_type = "WindowUpdate"
    /\ frontend.state.header.payload_len = 4
    /\ frontend.state.header.stream_id \in DOMAIN frontend.streams
    /\ LET index == frontend.streams[frontend.state.header.stream_id]
           sum   == I32Sum(StreamAt(streams, index).window,
                           AsI32(BE31U(ArrivedBytes, 1)))
       IN  sum # WrapI32(sum)

\* C11: a WINDOW_UPDATE whose increment would bring a stream's window above
\* 2^31 - 1 is a flow-control error: no window is set to a wrapped value, a
\* GOAWAY is emitted, and the session closes instead of aborting.
C11_WindowOverflowIsFlowControlError ==
    [][ WindowUpdateOverflows
          => /\ panic' = NoPanic
             /\ pc' # "panicked"
             /\ \A i \in 1..Len(streams') :
                  streams'[i].window[1] \in 0..32767
             /\ FrameEmitted("GoAway", 0) ]_vars

\* this step handles a SETTINGS frame: the client's first one, or one
\* received in the Header/Frame cycle
SettingsFrameArrives ==
    /\ \/ FrontendCompletes("ClientSettings")
       \/ /\ FrontendCompletes("Frame")
          /\ frontend.state.header.frame_type = "Settings"
    /\ settings_frame(ArrivedBytes, Len(ArrivedBytes)).ok

\* the entries of that frame
ArrivedSettings == settings_frame(ArrivedBytes, Len(ArrivedBytes)).frame.settings

KnownSetting(setting) == setting.identifier \in 1..6

\* C12: a SETTINGS entry whose identifier is outside 1..=6 is ignored: the
\* connection does not fail, the settings are those the entries with
\* identifiers 1..=6 give, and the connection goes to its next state.
C12_UnknownSettingIgnored ==
    [][ ( /\ SettingsFrameArrives
          /\ \E k \in 1..Len(ArrivedSettings) : ~KnownSetting(ArrivedSettings[k]) )
          => /\ panic' = NoPanic
             /\ pc' # "panicked"
             /\ frontend'.settings =
                  apply_settings(frontend.settings,
                                 SelectSeq(ArrivedSettings, KnownSetting), 1).settings
             /\ frontend'.state.name =
                  (IF frontend.state.name = "Frame" THEN "Header" ELSE "ServerSettings")
      ]_vars

\* settings states a SETTINGS frame can meet
StartSettings ==
    { [settings_header_table_size      |-> a,
       settings_enable_push            |-> b,
       settings_max_concurrent_streams |-> U32Max,
       settings_initial_window_size    |-> c,
       settings_max_frame_size         |-> U32Of(DefaultMaxFrameSize),
       settings_max_header_list_size   |-> d] :
        a \in {U32Of(0), U32Of(DefaultHeaderTableSize)},
        b \in BOOLEAN,
        c \in {U32Of(100), U32Of(DefaultInitialWindowSize)},
        d \in {U32Max, U32Of(8)} }

\* C13: handling a SETTINGS frame whose identifiers are all in 1..=6 sets
\* the six fields to what its entries give, and applying the same frame
\* again, to that state or after any starting state, changes nothing more.
C13_SettingsIdempotent ==
    [][ ( /\ SettingsFrameArrives
          /\ \A k \in 1..Len(ArrivedSettings) : KnownSetting(ArrivedSettings[k]) )
          => LET once == apply_settings(frontend.settings, ArrivedSettings, 1).settings
             IN  /\ frontend'.settings = once
                 /\ apply_settings(once, ArrivedSettings, 1).settings = once
                 /\ \A s \in StartSettings :
                      LET first == apply_settings(s, ArrivedSettings, 1).settings
                      IN  apply_settings(first, ArrivedSettings, 1).settings = first
      ]_vars

\* the frame (ENABLE_PUSH = 0, INITIAL_WINDOW_SIZE = 100) was handled twice
C13_Witness ==
    /\ frontend.kind = "H2"
    /\ frontend.state.name = "Header"
    /\ frontend.socket.rx = << >>
    /\ frontend.settings.settings_enable_push = FALSE
    /\ frontend.settings.settings_initial_window_size = U32Of(100)
    /\ panic = NoPanic

\* the flags of the SETTINGS frame this step handles: the first one was
\* accepted with flags 0
ArrivedSettingsFlags ==
    IF frontend.state.name = "Frame" THEN frontend.state.header.flags ELSE 0

\* SETTINGS-ACK: 00 00 00 04 01 00 00 00 00
SettingsAck == Hdr(0, "Settings", 1, 0)

\* this step wrote a SETTINGS-ACK, or queued one in stream 0's response
\* buffer
AckEmitted ==
    \E new \in { NewBytes(frontend.socket.tx, frontend'.socket.tx),
                 NewBytes(streams[1].back.storage, streams'[1].back.storage) } :
      \E k \in 1..(Len(new) - FrameHeaderLen + 1) :
        SubSeq(new, k, k + FrameHeaderLen - 1) = SettingsAck

\* C14: handling a SETTINGS frame with flags other than 1 emits a
\* SETTINGS-ACK, for the first SETTINGS of the handshake and for one received
\* in the Header/Frame cycle; handling one with flags 1 emits none.
C14_SettingsAcked ==
    [][ ( /\ SettingsFrameArrives
          /\ \A k \in 1..Len(ArrivedSettings) : KnownSetting(ArrivedSettings[k]) )
          => (AckEmitted <=> ArrivedSettingsFlags # 1) ]_vars

\* how many bytes the frontend's readable() asks its socket for
FrontendReadAmount ==
    IF frontend.kind = "H1"
    THEN storage_space(StreamAt(streams, frontend.stream)[h1_readable_buffer(frontend.position)])
    ELSE frontend.expect[2]

\* what the frontend's readable() makes of the result r of its socket_read
FrontendReadOutcomes(r) ==
    IF frontend.kind = "H1"
    THEN {h1_readable_read(frontend, streams, pool, r)}
    ELSE h2_readable_read(frontend, streams, pool, frontend.expect[1],
                          frontend.expect[2], r)

\* this step is the frontend's readable() with a socket_read that returned
\* one of the statuses
FrontendReadReturns(statuses) ==
    /\ pc = "front_readable"
    /\ readable_due(frontend)
    /\ frontend.kind = "H2" => /\ frontend.expect # None
                               /\ frontend.expect[1] < Len(streams)
    /\ \E r \in socket_read(frontend.socket, FrontendReadAmount) :
         /\ r.status \in statuses
         /\ \E o \in FrontendReadOutcomes(r) :
              /\ frontend' = o.c
              /\ streams' = o.streams
              /\ pool' = o.pool
              /\ panic' = o.panic

\* C15: a socket read that returns Closed or Error closes the session: the
\* handler does not abort, and the session is not left as it is after a read
\* that would block (event bit cleared, nothing recorded), from where ready()
\* goes on and returns Continue.
C15_ReadFailureCloses ==
    [][ FrontendReadReturns({"Closed", "Error"})
          => /\ panic' = NoPanic
             /\ pc' # "panicked"
             /\ ~FrontendReadReturns({"WouldBlock"}) ]_vars

\* C16: a server H2 connection in ClientPreface whose first 24 bytes are not
\* the preface closes with a protocol error: the handler does not abort and
\* the connection does not go on to ClientSettings, ServerSettings or Header.
C16_BadPrefaceCloses ==
    [][ ( /\ FrontendCompletes("ClientPreface")
          /\ SubSeq(ArrivedBytes, 1, PrefaceLen) # PREFACE )
          => /\ panic' = NoPanic
             /\ pc' # "panicked"
             /\ frontend'.state.name \in {"ClientPreface", "Error"} ]_vars

\* the H1 frontend's parser has reported its message terminated
FrontendTerminated(fe, table) ==
    /\ fe.kind = "H1"
    /\ fe.stream < Len(table)
    /\ StreamAt(table, fe.stream)[h1_readable_buffer(fe.position)].terminated

\* the readable() calls made on the frontend in the current pass
FrontendReadableCalls(log) ==
    { k \in 1..Len(log) : log[k].conn = frontend_token /\ log[k].op = "readable" }

\* C17: once the H1 frontend's parser has reported the message terminated,
\* READABLE is out of its interest mask, and from then on no step, whatever
\* events were delivered, calls its readable() or reads from its socket.
C17_TerminatedStopsReading ==
    [][ /\ FrontendTerminated(frontend', streams')
          => READABLE \notin frontend'.readiness.interest
        /\ FrontendTerminated(frontend, streams)
          => /\ FrontendTerminated(frontend', streams')
             /\ frontend'.socket.rx = frontend.socket.rx
             /\ FrontendReadableCalls(calls') \subseteq FrontendReadableCalls(calls)
      ]_vars

\* READABLE was delivered to the terminated frontend, and a pass of ready()
\* went past the frontend without calling readable()
C17_Witness ==
    /\ FrontendTerminated(frontend, streams)
    /\ READABLE \in frontend.readiness.event
    /\ pc = "backends"
    /\ FrontendReadableCalls(calls) = {}

\* this step is the frontend's writable() in state ServerSettings
ServerSettingsWritten ==
    /\ pc = "backends"
    /\ todo = {}
    /\ pc' # pc
    /\ writable_due(frontend)
    /\ frontend.kind = "H2"
    /\ frontend.position = "Server"
    /\ frontend.state.name = "ServerSettings"

\* C18: the connection leaves ServerSettings (WRITABLE off, READABLE on,
\* state Header, expectation (0, 9)) only when the socket has accepted every
\* byte queued in stream 0's response buffer; when it accepts fewer, the rest
\* stays queued, the state stays ServerSettings and WRITABLE stays in the
\* interest.
C18_ServerSettingsFullyWritten ==
    [][ ServerSettingsWritten
          => LET queued   == streams[1].back.storage
                 accepted == NewBytes(frontend.socket.tx, frontend'.socket.tx)
             IN  /\ Len(accepted) < Len(queued)
                   => /\ frontend'.state.name = "ServerSettings"
                      /\ WRITABLE \in frontend'.readiness.interest
                      /\ streams'[1].back.storage =
                           SubSeq(queued, Len(accepted) + 1, Len(queued))
                 /\ frontend'.state.name = "Header"
                   => /\ accepted = queued
                      /\ WRITABLE \notin frontend'.readiness.interest
                      /\ READABLE \in frontend'.readiness.interest
                      /\ frontend'.expect = << 0, FrameHeaderLen >> ]_vars

(***************************************************************************)
(* A frame without payload, in a session that is kept running: the client *)
(* completes the handshake and sends its SETTINGS-ACK; every ready() that  *)
(* was entered runs to its end, ready() is called again whenever the       *)
(* session is idle, and READABLE | WRITABLE is delivered to the frontend   *)
(* again and again.                                                        *)
(***************************************************************************)
InitEmptyFrame ==
    /\ InitFrames
    /\ frontend = new_h2_server(NewSocket(EmptyFrameInput))

EmptyFrameSpec ==
    /\ InitEmptyFrame
    /\ [][Next]_vars
    /\ WF_vars(ReadyEnter)
    /\ WF_vars(FrontReadable)
    /\ WF_vars(\E t \in BackendTokens : BackendStep(t))
    /\ WF_vars(FrontWritable)
    /\ WF_vars(EndOfPass)
    /\ SF_vars(UpdateReadiness(frontend_token, {READABLE, WRITABLE}))

\* the frontend has accepted a frame header and the socket has delivered
\* every byte of the payload it announced
FramePayloadDelivered ==
    /\ frontend.kind = "H2"
    /\ frontend.state.name = "Frame"
    /\ frontend.expect # None
    /\ frontend.expect[2] = 0

\* the frontend is back in Header, waiting for the next frame header
BackInHeader ==
    /\ frontend.kind = "H2"
    /\ frontend.state.name = "Header"
    /\ frontend.expect = << 0, FrameHeaderLen >>

\* C19: a frame whose payload has been delivered, one announcing no payload
\* included, is dispatched and the connection returns to Header with
\* expectation (0, 9), in a session that stays open and is driven on.
C19_FrameDispatched ==
    FramePayloadDelivered ~> (BackInHeader \/ pc \in {"closed", "panicked"})

\* this step handles a WINDOW_UPDATE for a wire stream id of the map, with
\* an increment the window has room for
WindowUpdateArrives ==
    /\ FrontendCompletes("Frame")
    /\ frontend.state.header.frame_type = "WindowUpdate"
    /\ frontend.state.header.payload_len = 4
    /\ frontend.state.header.stream_id \in DOMAIN frontend.streams
    /\ ~WindowUpdateOverflows

\* C20: handling WINDOW_UPDATE(s, n) adds n to the window of the Stream at
\* the global index the connection's map gives for the wire id s, and leaves
\* the window of every other Stream as it was.
C20_WindowUpdateTargetsMappedStream ==
    [][ WindowUpdateArrives
          => LET index == frontend.streams[frontend.state.header.stream_id]
             IN  /\ panic' = NoPanic
                 /\ Len(streams') = Len(streams)
                 /\ streams'[index + 1].window =
                      I32Sum(streams[index + 1].window,
                             AsI32(BE31U(ArrivedBytes, 1)))
                 /\ \A i \in 1..Len(streams) :
                      i # index + 1 => streams'[i].window = streams[i].window
      ]_vars

\* this step is the H1 frontend's readable() with a read that delivered
\* bytes
H1FrontendReads ==
    /\ pc = "front_readable"
    /\ readable_due(frontend)
    /\ frontend.kind = "H1"
    /\ frontend.stream < Len(streams)
    /\ frontend'.socket.rx # frontend.socket.rx

\* this step is the H1 backend t's writable() with a write the socket
\* accepted bytes of
H1BackendWrites(t) ==
    /\ pc = "backends"
    /\ t \in todo
    /\ t \notin todo'
    /\ backends[t].kind = "H1"
    /\ backends[t].stream < Len(streams)
    /\ writable_due(backends[t])
    /\ backends'[t].socket.tx # backends[t].socket.tx

\* the step appended bytes to the buffer `name` of the stream at `index`
BufferFilled(index, name) ==
    /\ Len(streams'[index + 1][name].storage) > Len(streams[index + 1][name].storage)
    /\ SubSeq(streams'[index + 1][name].storage, 1,
              Len(streams[index + 1][name].storage))
         = streams[index + 1][name].storage

\* C21: buffer polarity follows position: readable() fills the buffer
\* Stream::front(position) gives (front for Server, back for Client) and
\* leaves the other alone; writable() drains the buffer Stream::back(position)
\* gives (back for Server, front for Client) and leaves the other alone.
C21_BufferPolarityFollowsPosition ==
    [][ /\ H1FrontendReads
          => /\ BufferFilled(frontend.stream, front(frontend.position))
             /\ streams'[frontend.stream + 1][back(frontend.position)]
                  = streams[frontend.stream + 1][back(frontend.position)]
        /\ \A t \in DOMAIN backends :
             H1BackendWrites(t)
               => /\ Len(streams'[backends[t].stream + 1][back(backends[t].position)].storage)
                       < Len(streams[backends[t].stream + 1][back(backends[t].position)].storage)
                  /\ streams'[backends[t].stream + 1][front(backends[t].position)]
                       = streams[backends[t].stream + 1][front(backends[t].position)]
      ]_vars

\* interest and expectation of the server H2 frontend agree with its state
H2InterestMatchesState ==
    (frontend.kind = "H2" /\ frontend.position = "Server" /\ pc # "panicked")
      => /\ WRITABLE \in frontend.readiness.interest
              <=> frontend.state.name = "ServerSettings"
         /\ READABLE \in frontend.readiness.interest
              <=> frontend.state.name # "ServerSettings"
         /\ frontend.expect = None
              <=> frontend.state.name = "ServerSettings"

\* C22: between handler calls, the server H2 frontend has WRITABLE in its
\* interest exactly in state ServerSettings, READABLE exactly in the other
\* states, and no expectation exactly in state ServerSettings; so writable()
\* is called on it only in state ServerSettings, and no handler reaches an
\* unreachable!() arm.
C22_InterestFollowsState ==
    /\ []H2InterestMatchesState
    /\ [][ /\ ( /\ pc = "backends"
                /\ todo = {}
                /\ pc' # pc
                /\ frontend.kind = "H2"
                /\ frontend.position = "Server"
                /\ writable_due(frontend) )
              => frontend.state.name = "ServerSettings"
           /\ panic' # "unreachable" ]_vars

\* writable() was called in ServerSettings and the connection is in Header
C22_Witness ==
    /\ frontend.kind = "H2"
    /\ frontend.position = "Server"
    /\ frontend.state.name = "Header"
    /\ frontend.expect = << 0, FrameHeaderLen >>
    /\ READABLE \in frontend.readiness.interest
    /\ WRITABLE \notin frontend.readiness.interest
    /\ Len(frontend.socket.tx) > 0
    /\ pc = "backends"

====
